---------------------------- MODULE Spec2Model ----------------------------
(***************************************************************************)
(* A model of app.py: calculate_atr_percentile, its inner percentile_rank, *)
(* get_atr_score and analyze_stock.                                        *)
(*                                                                         *)
(* Numbers are exact rationals <<n, d>> with d > 0, kept in lowest terms.  *)
(* The two missing values of the program are pairs with d = 0: NaN (the    *)
(* float) and None (the Python object); pd.isna is true of both.  The      *)
(* float64 rounding of the arithmetic is not modelled: every sum, product  *)
(* and quotient is the exact one.                                          *)
(*                                                                         *)
(* A DataFrame is a function from column names to columns, a column a      *)
(* sequence of numbers, one per row.  DataFrames live in a heap and are    *)
(* named by references, so that a copy and an alias differ.                *)
(***************************************************************************)
EXTENDS Integers, Sequences, FiniteSets, TLC

\* ------------------------------------------------------------------------
\* Bounds of the model and constants of the program
\* ------------------------------------------------------------------------

\* The longest run of calm bars that opens an input series.
MaxCalm == 21

\* The longest free run of bars that closes an input series.
MaxTail == 2

\* min_periods of the rolling window (app.py line 37).
MinPeriods == 20

\* The shortest series percentile_rank ranks (app.py line 30).
MinRankLen == 20

\* The default of atr_length (app.py line 9).
DefaultAtrLength == 5

\* The default of lookback_days (app.py line 9).
DefaultLookback == 126

\* The percentile a score of 1 must exceed (app.py line 61).
ScoreThreshold == 50

\* ------------------------------------------------------------------------
\* Exact arithmetic with missing values
\* ------------------------------------------------------------------------

NaN == <<0, 0>>

None == <<1, 0>>

\* pd.isna
isna(x) == x[2] = 0

Abs(n) == IF n < 0 THEN -n ELSE n

RECURSIVE Gcd(_, _)
Gcd(a, b) == IF b = 0 THEN a ELSE Gcd(b, a % b)

Norm(n, d) == LET g == Gcd(Abs(n), d) IN <<n \div g, d \div g>>

Q(n) == <<n, 1>>

\* float subtraction, addition, multiplication, abs: NaN in, NaN out
QSub(a, b) == IF isna(a) \/ isna(b) THEN NaN
              ELSE Norm(a[1] * b[2] - b[1] * a[2], a[2] * b[2])

QAdd(a, b) == IF isna(a) \/ isna(b) THEN NaN
              ELSE Norm(a[1] * b[2] + b[1] * a[2], a[2] * b[2])

QMul(a, b) == IF isna(a) \/ isna(b) THEN NaN
              ELSE Norm(a[1] * b[1], a[2] * b[2])

QAbs(a) == IF isna(a) THEN NaN ELSE <<Abs(a[1]), a[2]>>

\* float comparisons: false when a side is NaN
QLe(a, b) == ~isna(a) /\ ~isna(b) /\ a[1] * b[2] <= b[1] * a[2]

QLt(a, b) == ~isna(a) /\ ~isna(b) /\ a[1] * b[2] < b[1] * a[2]

\* round(x, k) of a float, as the nearest multiple of 1/scale (scale = 10^k),
\* a tie going to the even multiple.
RoundTo(x, scale) ==
    LET num  == x[1] * scale
        fl   == num \div x[2]
        rem2 == 2 * (num - fl * x[2])
        up   == rem2 > x[2] \/ (rem2 = x[2] /\ fl % 2 = 1)
    IN  Norm(IF up THEN fl + 1 ELSE fl, scale)

\* ------------------------------------------------------------------------
\* The pandas operations the program calls
\* ------------------------------------------------------------------------

\* len(df): the number of rows
NRows(frame) == Len(frame["Close"])

\* Series.shift(1): the first row has no predecessor
Shift1(col) == [i \in 1..Len(col) |-> IF i = 1 THEN NaN ELSE col[i - 1]]

\* The greatest of a non-empty set of numbers
QMaxOf(S) == CHOOSE m \in S : \A x \in S : QLe(x, m)

\* A row maximum that does not skip NaN (max(axis=1, skipna=False))
RowMaxKeepNaN(cols) ==
    [i \in 1..Len(cols[1]) |->
        LET all == {cols[k][i] : k \in 1..Len(cols)}
        IN  IF NaN \in all THEN NaN ELSE QMaxOf(all)]

\* DataFrame.max(axis=1): per row, the greatest value that is not NaN
RowMax(cols) ==
    [i \in 1..Len(cols[1]) |->
        LET present == {cols[k][i] : k \in 1..Len(cols)} \ {NaN}
        IN  IF present = {} THEN NaN ELSE QMaxOf(present)]

\* Series.ewm(alpha, adjust=False).mean() on a series without NaN:
\* y[1] = x[1], y[i] = (1 - alpha) * y[i-1] + alpha * x[i]
RECURSIVE EwmFrom(_, _, _, _)
EwmFrom(col, alpha, i, acc) ==
    IF i > Len(col) THEN acc
    ELSE LET y == IF i = 1 THEN col[1]
                  ELSE QAdd(QMul(QSub(Q(1), alpha), acc[i - 1]),
                            QMul(alpha, col[i]))
         IN  EwmFrom(col, alpha, i + 1, Append(acc, y))

EwmMean(col, alpha) == EwmFrom(col, alpha, 1, <<>>)

\* A window one row too long: the rows i-window..i
WindowStartLong(i, window) == IF i - window < 1 THEN 1 ELSE i - window

\* The window of a rolling(window) at row i: the rows i-window+1..i that exist
WindowStart(i, window) == IF i - window + 1 < 1 THEN 1 ELSE i - window + 1

RollWindow(col, i, window) == SubSeq(col, WindowStart(i, window), i)

\* The number of entries of a series that are not NaN
CountValid(series) == Cardinality({k \in 1..Len(series) : ~isna(series[k])})


\* Rolling.apply with min_periods: whether the window that ends at row i
\* holds at least min_periods valid entries, so that the function is applied
\* (the result is NaN otherwise)
RollingApplies(col, i, window, min_periods) ==
    CountValid(RollWindow(col, i, window)) >= min_periods

\* A rolling window that accepts a min_periods above the window
RollingRaisesNegativeOnly(window, min_periods) == window < 0

\* Series.rolling(window, min_periods) rejects a negative window and a
\* min_periods above the window with a ValueError
RollingRaises(window, min_periods) == window < 0 \/ min_periods > window

\* An ewm that only rejects an alpha above 1
EwmRaisesAboveOne(alpha) == ~QLe(alpha, Q(1))

\* Series.ewm(alpha=...) rejects an alpha outside (0, 1] with a ValueError
EwmRaises(alpha) == ~(QLt(Q(0), alpha) /\ QLe(alpha, Q(1)))

\* df[name] = col
SetCol(frame, name, col) == (name :> col) @@ frame

\* df.drop(names, axis=1, inplace=True)
DropCols(frame, names) == [c \in DOMAIN frame \ names |-> frame[c]]

\* ------------------------------------------------------------------------
\* calculate_atr_percentile
\* ------------------------------------------------------------------------

\* The reference a new object gets
NewRef(h) == Cardinality(DOMAIN h) + 1

\* No copy: the local name df stays bound to the caller's object
df_alias(h, r) == [heap |-> h, ref |-> r]

\* df = df.copy(): a new object with the same columns; the local name df is
\* bound to it
df_copy(h, r) == [heap |-> h @@ (NewRef(h) :> h[r]), ref |-> NewRef(h)]

\* Lines 20-23: the columns tr1, tr2, tr3 and tr
tr1_of(frame) ==
    [i \in 1..NRows(frame) |-> QSub(frame["High"][i], frame["Low"][i])]

tr2_of(frame) ==
    [i \in 1..NRows(frame) |->
        QAbs(QSub(frame["High"][i], Shift1(frame["Close"])[i]))]

tr3_of(frame) ==
    [i \in 1..NRows(frame) |->
        QAbs(QSub(frame["Low"][i], Shift1(frame["Close"])[i]))]

tr_of(frame) == RowMax(<<frame["tr1"], frame["tr2"], frame["tr3"]>>)

WithTrueRange(frame) ==
    LET f1 == SetCol(frame, "tr1", tr1_of(frame))
        f2 == SetCol(f1, "tr2", tr2_of(f1))
        f3 == SetCol(f2, "tr3", tr3_of(f2))
    IN  SetCol(f3, "tr", tr_of(f3))

\* The span convention alpha = 2/(atr_length + 1)
alpha_of_span(length) ==
    IF length > 0 THEN Norm(2, length + 1) ELSE <<-2, -(length + 1)>>

\* Line 26: alpha = 1/atr_length, for atr_length other than 0
alpha_of(length) == IF length > 0 THEN <<1, length>> ELSE <<-1, -length>>

atr_of(frame, length) == EwmMean(frame["tr"], alpha_of(length))

\* A rank that counts the values strictly below the current one
percentile_rank_strict(series) ==
    IF Len(series) < MinRankLen THEN NaN
    ELSE LET current_value == series[Len(series)]
             below == {k \in 1..Len(series) : QLt(series[k], current_value)}
         IN  QMul(Norm(Cardinality(below), Len(series)), Q(100))

\* Lines 29-33: the inner function percentile_rank
percentile_rank(series) ==
    IF Len(series) < MinRankLen THEN NaN
    ELSE LET current_value == series[Len(series)]
             below == {k \in 1..Len(series) : QLe(series[k], current_value)}
         IN  QMul(Norm(Cardinality(below), Len(series)), Q(100))

\* Lines 35-38
atr_percentile_of(frame, window) ==
    [i \in 1..Len(frame["atr"]) |->
        IF RollingApplies(frame["atr"], i, window, MinPeriods)
        THEN percentile_rank(RollWindow(frame["atr"], i, window))
        ELSE NaN]

\* Line 41
TempCols == {"tr1", "tr2", "tr3", "tr"}

\* ------------------------------------------------------------------------
\* get_atr_score
\* ------------------------------------------------------------------------

\* An argument that may be None: <<>> is None, <<v>> is the value v
NoFrame == <<>>

\* latest.get(name, None) of the last row
latest_get(frame, name) ==
    IF name \in DOMAIN frame THEN frame[name][NRows(frame)] ELSE None

\* A score of 1 from the threshold on (>= for >)
get_atr_score_ge(dfopt) ==
    IF dfopt = NoFrame \/ NRows(dfopt[1]) = 0 THEN <<0, None, None>>
    ELSE LET atr_percentile == latest_get(dfopt[1], "atr_percentile")
             atr_value      == latest_get(dfopt[1], "atr")
         IN  IF isna(atr_percentile) THEN <<0, None, None>>
             ELSE << IF QLe(Q(ScoreThreshold), atr_percentile) THEN 1 ELSE 0,
                     RoundTo(atr_percentile, 10),
                     RoundTo(atr_value, 10000) >>

\* Zeros, not None, for a DataFrame without rows
get_atr_score_zeros(dfopt) ==
    IF dfopt = NoFrame \/ NRows(dfopt[1]) = 0 THEN <<0, Q(0), Q(0)>>
    ELSE LET atr_percentile == latest_get(dfopt[1], "atr_percentile")
             atr_value      == latest_get(dfopt[1], "atr")
         IN  IF isna(atr_percentile) THEN <<0, None, None>>
             ELSE << IF QLt(Q(ScoreThreshold), atr_percentile) THEN 1 ELSE 0,
                     RoundTo(atr_percentile, 10),
                     RoundTo(atr_value, 10000) >>

get_atr_score(dfopt) ==
    IF dfopt = NoFrame \/ NRows(dfopt[1]) = 0 THEN <<0, None, None>>
    ELSE LET atr_percentile == latest_get(dfopt[1], "atr_percentile")
             atr_value      == latest_get(dfopt[1], "atr")
         IN  IF isna(atr_percentile) THEN <<0, None, None>>
             ELSE << IF QLt(Q(ScoreThreshold), atr_percentile) THEN 1 ELSE 0,
                     RoundTo(atr_percentile, 10),
                     RoundTo(atr_value, 10000) >>

\* ------------------------------------------------------------------------
\* Inputs
\* ------------------------------------------------------------------------

Bar(h, l, c) == [High |-> h, Low |-> l, Close |-> c]

Calm    == Bar(102, 100, 101)
Flat    == Bar(101, 101, 101)
Wide    == Bar(110, 90, 100)
GapUp   == Bar(120, 118, 119)
GapDown == Bar(82, 80, 81)
\* A bar that breaks the input contract High >= Low
Crossed == Bar(99, 101, 100)

BarSet == {Calm, Flat, Wide, GapUp, GapDown, Crossed}

Repeat(b, n) == [i \in 1..n |-> b]

Tails(n) == UNION {[1..k -> BarSet] : k \in 0..n}

CalmLens == {0} \cup ((MinPeriods - 2)..MaxCalm)

\* A run of calm bars, then a short free run
CalmTailSeries ==
    {Repeat(Calm, p) \o t : p \in CalmLens, t \in Tails(MaxTail)}

HalfLens == ((MinPeriods \div 2) - 1)..((MinPeriods \div 2) + 1)

\* A run of wide bars, then a run of calm bars
TwoLevelSeries ==
    {Repeat(Wide, a) \o Repeat(Calm, b) : a \in HalfLens, b \in HalfLens}

Frame(bars) ==
    [c \in {"High", "Low", "Close"} |->
        [i \in 1..Len(bars) |-> Q(bars[i][c])]]

Lengths == {-1, 0, 1, DefaultAtrLength}

Windows == {MinPeriods - 1, MinPeriods, MinPeriods + 1, DefaultLookback}

\* (series, atr_length) pairs: the two-level series are run unsmoothed, so
\* that every ATR value stays a small fraction
SeriesAndLength ==
    (CalmTailSeries \X Lengths) \cup (TwoLevelSeries \X {1})

\* The frames of the repeated-call runs: a calm run around the minimum
\* sample count, then at most one free bar
PureSeries ==
    {Repeat(Calm, p) \o t : p \in {MinPeriods - 1, MinPeriods}, t \in Tails(1)}

\* The (atr_length, lookback_days) of the call made between two equal calls
BetweenParams == {<<DefaultAtrLength, MinPeriods>>, <<0, MinPeriods>>}

Tickers == {"aapl"}

\* str.upper
Upper(t) == IF t = "aapl" THEN "AAPL" ELSE t

\* stock.info: a dict, with or without the keys the program reads
Infos ==
    { [longName |-> "Apple Inc.", sector |-> "Technology",
       industry |-> "Consumer Electronics"],
      [symbol |-> "AAPL"] }

\* dict.get(key, default)
dict_get(d, key, default) == IF key \in DOMAIN d THEN d[key] ELSE default

\* ------------------------------------------------------------------------
\* State
\* ------------------------------------------------------------------------

VARIABLES
    heap,           \* reference -> DataFrame
    arg,            \* the reference the caller passes as df
    atr_length,     \* parameter atr_length
    lookback_days,  \* parameter lookback_days
    df,             \* the local name df of calculate_atr_percentile
    pc,             \* the statement about to run
    ret,            \* what calculate_atr_percentile returned, or that it raised
    exc,            \* the exception in flight, "" when none
    score_df,       \* the argument of get_atr_score
    score,          \* what get_atr_score returned
    caller,         \* who called calculate_atr_percentile
    ticker,         \* parameter ticker of analyze_stock
    info,           \* the local name info of analyze_stock
    out,            \* what analyze_stock returned
    input,          \* the caller's DataFrame as it was at the call
    log             \* the calls of calculate_atr_percentile that have ended

vars == <<heap, arg, atr_length, lookback_days, df, pc, ret, exc, score_df,
          score, caller, ticker, info, out, input, log>>

params == <<arg, atr_length, lookback_days>>

scoring == <<score_df, score>>

outer == <<caller, ticker, info, out>>

NoRet == [kind |-> "none", ref |-> 0]

Returned(r) == [kind |-> "df", ref |-> r]

RaisedRet == [kind |-> "raise", ref |-> 0]

\* A value that may be None: <<>> is None, <<v>> is v
NoOut == [res |-> <<>>, err |-> <<>>]

NoInfo == [none |-> ""]

Init ==
    \E sl \in SeriesAndLength, w \in Windows :
        /\ heap = (1 :> Frame(sl[1]))
        /\ arg = 1
        /\ atr_length = sl[2]
        /\ lookback_days = w
        /\ df = 0
        /\ pc = "call"
        /\ ret = NoRet
        /\ exc = ""
        /\ score_df = NoFrame
        /\ score = <<>>
        /\ caller = "direct"
        /\ ticker = ""
        /\ info = NoInfo
        /\ out = NoOut
        /\ input = Frame(sl[1])
        /\ log = <<>>

\* An except clause that names ValueError only
CatchesValueError(e) == e = "ValueError"

\* Line 98: except Exception catches every exception the model raises
Catches(e) == TRUE

\* Where a raise of e inside calculate_atr_percentile, or inside the try
\* block of analyze_stock, leads
RaiseTarget(who, e) ==
    IF who = "analyze" /\ Catches(e) THEN "as_except" ELSE "raised"

\* A raise inside calculate_atr_percentile
Raise(e) ==
    /\ pc' = RaiseTarget(caller, e)
    /\ ret' = RaisedRet
    /\ exc' = e
    /\ UNCHANGED <<heap, params, df, scoring, outer, input, log>>

\* Line 17
Copy ==
    /\ pc = "call"
    /\ heap' = df_copy(heap, arg).heap
    /\ df' = df_copy(heap, arg).ref
    /\ pc' = "tr"
    /\ UNCHANGED <<params, ret, exc, scoring, outer, input, log>>

\* Lines 20-23
TrueRange ==
    /\ pc = "tr"
    /\ heap' = [heap EXCEPT ![df] = WithTrueRange(@)]
    /\ pc' = "atr"
    /\ UNCHANGED <<params, df, ret, exc, scoring, outer, input, log>>

\* Line 26
Atr ==
    /\ pc = "atr"
    /\ \/ /\ atr_length = 0
          /\ Raise("ZeroDivisionError")
       \/ /\ atr_length # 0
          /\ EwmRaises(alpha_of(atr_length))
          /\ Raise("ValueError")
       \/ /\ atr_length # 0
          /\ ~EwmRaises(alpha_of(atr_length))
          /\ heap' = [heap EXCEPT
                        ![df] = SetCol(@, "atr", atr_of(@, atr_length))]
          /\ pc' = "pct"
          /\ UNCHANGED <<params, df, ret, exc, scoring, outer, input, log>>

\* Lines 35-38
Percentile ==
    /\ pc = "pct"
    /\ \/ /\ RollingRaises(lookback_days, MinPeriods)
          /\ Raise("ValueError")
       \/ /\ ~RollingRaises(lookback_days, MinPeriods)
          /\ heap' = [heap EXCEPT
                        ![df] = SetCol(@, "atr_percentile",
                                       atr_percentile_of(@, lookback_days))]
          /\ pc' = "drop"
          /\ UNCHANGED <<params, df, ret, exc, scoring, outer, input, log>>

\* Line 41
Drop ==
    /\ pc = "drop"
    /\ heap' = [heap EXCEPT ![df] = DropCols(@, TempCols)]
    /\ pc' = "return"
    /\ UNCHANGED <<params, df, ret, exc, scoring, outer, input, log>>

\* Line 43
Return ==
    /\ pc = "return"
    /\ ret' = Returned(df)
    /\ pc' = IF caller = "analyze" THEN "as_score" ELSE "returned"
    /\ UNCHANGED <<heap, params, df, exc, scoring, outer, input, log>>

\* The caller hands what calculate_atr_percentile returned, or None, to
\* get_atr_score (lines 45-63)
GetScore ==
    /\ pc = "returned"
    /\ \E a \in {<<heap[ret.ref]>>, NoFrame} :
        /\ score_df' = a
        /\ score' = get_atr_score(a)
    /\ pc' = "scored"
    /\ UNCHANGED <<heap, params, df, ret, exc, outer, input, log>>

Next ==
    \/ Copy
    \/ TrueRange
    \/ Atr
    \/ Percentile
    \/ Drop
    \/ Return
    \/ GetScore

Spec == Init /\ [][Next]_vars


\* ------------------------------------------------------------------------
\* analyze_stock
\* ------------------------------------------------------------------------

InitAnalyze ==
    \E l \in Lengths, w \in Windows, t \in Tickers :
        /\ heap = <<>>
        /\ arg = 0
        /\ atr_length = l
        /\ lookback_days = w
        /\ df = 0
        /\ pc = "as_download"
        /\ ret = NoRet
        /\ exc = ""
        /\ score_df = NoFrame
        /\ score = <<>>
        /\ caller = "analyze"
        /\ ticker = t
        /\ info = NoInfo
        /\ out = NoOut
        /\ input = <<>>
        /\ log = <<>>

\* A raise by a statement of analyze_stock's own try block
RaiseInAnalyze(e) ==
    /\ pc' = RaiseTarget("analyze", e)
    /\ exc' = e
    /\ UNCHANGED <<heap, params, df, ret, scoring, outer, input, log>>

\* Lines 70-71: the data source returns bars (perhaps none), or raises
Download ==
    /\ pc = "as_download"
    /\ \/ RaiseInAnalyze("DownloadError")
       \/ \E sl \in SeriesAndLength :
            /\ sl[2] = atr_length
            /\ heap' = (1 :> Frame(sl[1]))
            /\ arg' = 1
            /\ input' = Frame(sl[1])
            /\ pc' = "as_empty"
            /\ UNCHANGED <<atr_length, lookback_days, df, ret, exc, scoring,
                           outer, log>>

\* Lines 73-77: no bars end the analysis; otherwise calculate_atr_percentile
\* is called
CheckEmpty ==
    /\ pc = "as_empty"
    /\ \/ /\ NRows(heap[arg]) = 0
          /\ out' = [res |-> <<>>,
                     err |-> << <<"Unable to fetch data for this ticker">> >>]
          /\ pc' = "as_done"
          /\ UNCHANGED <<heap, params, df, ret, exc, scoring, caller, ticker,
                         info, input, log>>
       \/ /\ NRows(heap[arg]) # 0
          /\ pc' = "call"
          /\ UNCHANGED <<heap, params, df, ret, exc, scoring, outer, input,
                         log>>

\* Line 80
AnalyzeScore ==
    /\ pc = "as_score"
    /\ score_df' = <<heap[ret.ref]>>
    /\ score' = get_atr_score(<<heap[ret.ref]>>)
    /\ pc' = "as_info"
    /\ UNCHANGED <<heap, params, df, ret, exc, outer, input, log>>

\* Line 83: the info lookup returns a dict, or raises
Info ==
    /\ pc = "as_info"
    /\ \/ RaiseInAnalyze("InfoError")
       \/ \E d \in Infos :
            /\ info' = d
            /\ pc' = "as_result"
            /\ UNCHANGED <<heap, params, df, ret, exc, scoring, caller,
                           ticker, out, input, log>>

\* Lines 84-96
AnalyzeReturn ==
    /\ pc = "as_result"
    /\ out' = [res |-> << [ticker |-> Upper(ticker),
                           data |-> ret.ref,
                           atr_score |-> score[1],
                           atr_percentile |-> score[2],
                           atr_value |-> score[3],
                           current_price |->
                               latest_get(heap[ret.ref], "Close"),
                           company_name |-> dict_get(info, "longName", ticker),
                           sector |-> dict_get(info, "sector", "N/A"),
                           industry |-> dict_get(info, "industry", "N/A")] >>,
               err |-> <<>>]
    /\ pc' = "as_done"
    /\ UNCHANGED <<heap, params, df, ret, exc, scoring, caller, ticker, info,
                   input, log>>

\* Lines 98-99
Except ==
    /\ pc = "as_except"
    /\ out' = [res |-> <<>>,
               err |-> << <<"Error analyzing ", ticker, ": ", exc>> >>]
    /\ pc' = "as_done"
    /\ UNCHANGED <<heap, params, df, ret, exc, scoring, caller, ticker, info,
                   input, log>>

NextAnalyze ==
    \/ Download
    \/ CheckEmpty
    \/ Copy
    \/ TrueRange
    \/ Atr
    \/ Percentile
    \/ Drop
    \/ Return
    \/ AnalyzeScore
    \/ Info
    \/ AnalyzeReturn
    \/ Except

SpecAnalyze == InitAnalyze /\ [][NextAnalyze]_vars

\* ------------------------------------------------------------------------
\* Repeated calls of calculate_atr_percentile: a call, a call on any other
\* arguments, and the first call again on the same caller's object
\* ------------------------------------------------------------------------

InitPure ==
    \E bars \in PureSeries, l \in Lengths, w \in Windows :
        /\ heap = (1 :> Frame(bars))
        /\ arg = 1
        /\ atr_length = l
        /\ lookback_days = w
        /\ df = 0
        /\ pc = "call"
        /\ ret = NoRet
        /\ exc = ""
        /\ score_df = NoFrame
        /\ score = <<>>
        /\ caller = "direct"
        /\ ticker = ""
        /\ info = NoInfo
        /\ out = NoOut
        /\ input = Frame(bars)
        /\ log = <<>>

\* What a call that has ended is remembered by
Ended ==
    [df |-> input, atr_length |-> atr_length, lookback_days |-> lookback_days,
     out |-> [exc |-> exc,
              frames |-> IF ret.kind = "df" THEN <<heap[ret.ref]>> ELSE <<>>]]

\* The caller calls on another DataFrame and other parameters
CallOther ==
    /\ pc \in {"returned", "raised"}
    /\ Len(log) = 0
    /\ log' = Append(log, Ended)
    /\ \E bars \in PureSeries, lw \in BetweenParams :
        /\ heap' = heap @@ (NewRef(heap) :> Frame(bars))
        /\ arg' = NewRef(heap)
        /\ input' = Frame(bars)
        /\ atr_length' = lw[1]
        /\ lookback_days' = lw[2]
    /\ pc' = "call"
    /\ df' = 0
    /\ ret' = NoRet
    /\ exc' = ""
    /\ UNCHANGED <<scoring, outer>>

\* The caller repeats its first call: the same object, the same parameters
CallAgain ==
    /\ pc \in {"returned", "raised"}
    /\ Len(log) = 1
    /\ log' = Append(log, Ended)
    /\ arg' = 1
    /\ input' = log[1].df
    /\ atr_length' = log[1].atr_length
    /\ lookback_days' = log[1].lookback_days
    /\ pc' = "call"
    /\ df' = 0
    /\ ret' = NoRet
    /\ exc' = ""
    /\ UNCHANGED <<heap, scoring, outer>>

\* The last call ends
Finish ==
    /\ pc \in {"returned", "raised"}
    /\ Len(log) = 2
    /\ log' = Append(log, Ended)
    /\ pc' = "finished"
    /\ UNCHANGED <<heap, params, df, ret, exc, scoring, outer, input>>

NextPure ==
    \/ Copy
    \/ TrueRange
    \/ Atr
    \/ Percentile
    \/ Drop
    \/ Return
    \/ CallOther
    \/ CallAgain
    \/ Finish

SpecPure == InitPure /\ [][NextPure]_vars


\* ------------------------------------------------------------------------
\* Properties
\* ------------------------------------------------------------------------

Min(a, b) == IF a < b THEN a ELSE b

\* The DataFrame calculate_atr_percentile works on, once df is bound
Work == heap[df]

HasCols(cols) == df \in DOMAIN heap /\ cols \subseteq DOMAIN Work

\* Equality of two numbers, neither missing
QEq(a, b) == ~isna(a) /\ ~isna(b) /\ a[1] * b[2] = b[1] * a[2]

\* The length of the trailing window that ends at row i
WinLen(i) == Min(i, lookback_days)

\* The rows of the trailing window that ends at row i
WinRows(i) == (i - WinLen(i) + 1)..i

\* The rows of that window whose ATR is at most the ATR of row i
AtMost(i) == {k \in WinRows(i) : QLe(Work["atr"][k], Work["atr"][i])}

\* Every bar of the caller's series has High >= Low
ValidBars == \A i \in 1..NRows(input) : QLe(input["Low"][i], input["High"][i])

\* r is the multiple of 1/scale nearest to x
Nearest(r, x, scale) ==
    /\ ~isna(r)
    /\ scale % r[2] = 0
    /\ LET k == r[1] * (scale \div r[2])
       IN  2 * Abs(k * x[2] - x[1] * scale) <= x[2]

\* C1: with a lookback window of at least 20, the atr_percentile of row i is
\* NaN when the trailing window ending at i, of length min(i, W) counting
\* rows from 1, has fewer than 20 rows, and otherwise exactly
\* 100 * (rows of the window with ATR <= ATR[i]) / (window length).
C1_PercentileRank ==
    (HasCols({"atr", "atr_percentile"}) /\ lookback_days >= MinPeriods) =>
        /\ Len(Work["atr_percentile"]) = Len(Work["atr"])
        /\ \A i \in 1..Len(Work["atr"]) :
            IF WinLen(i) < MinPeriods
            THEN Work["atr_percentile"][i] = NaN
            ELSE QEq(Work["atr_percentile"][i],
                     <<100 * Cardinality(AtMost(i)), WinLen(i)>>)

\* C1's case: a window that has slid (row i beyond the lookback), smoothed
\* ATR values, an undefined first row and a defined rank below 100
C1_Witness ==
    /\ HasCols({"atr", "atr_percentile"})
    /\ atr_length = DefaultAtrLength
    /\ lookback_days = MinPeriods
    /\ Len(Work["atr"]) > lookback_days
    /\ Work["atr_percentile"][1] = NaN
    /\ \E i \in 1..Len(Work["atr"]) :
        /\ i > lookback_days
        /\ ~isna(Work["atr_percentile"][i])
        /\ QLt(Work["atr_percentile"][i], Q(100))
        /\ Cardinality(AtMost(i)) > 1

\* C2: for a non-empty DataFrame get_atr_score reads the last row only: an
\* undefined last percentile gives (0, None, None); otherwise the score is 1
\* exactly when the last percentile exceeds 50, and the percentile and ATR
\* returned are the last row's, rounded to 1 and to 4 decimal places.
C2_ScoreOfLastRow ==
    (pc \in {"scored", "as_info"} /\ score_df # NoFrame
        /\ NRows(score_df[1]) > 0) =>
        LET last == NRows(score_df[1])
            p == score_df[1]["atr_percentile"][last]
            a == score_df[1]["atr"][last]
        IN  IF p = NaN THEN score = <<0, None, None>>
            ELSE /\ score[1] \in {0, 1}
                 /\ score[1] = 1 <=> p[1] > ScoreThreshold * p[2]
                 /\ Nearest(score[2], p, 10)
                 /\ Nearest(score[3], a, 10000)

\* C2's case: a last percentile of exactly 50, which scores 0
C2_Witness ==
    /\ pc = "scored"
    /\ score_df # NoFrame
    /\ NRows(score_df[1]) > 0
    /\ score_df[1]["atr_percentile"][NRows(score_df[1])] = Q(50)
    /\ score = <<0, Q(50), Q(2)>>

\* C3: ATR[1] = TR[1] and, for every later row i,
\* ATR[i] = (1/L) * TR[i] + (1 - 1/L) * ATR[i-1]; with L = 1, ATR = TR.
C3_AtrRecursion ==
    HasCols({"tr", "atr"}) =>
        LET t == Work["tr"]
            a == Work["atr"]
        IN  /\ Len(a) = Len(t)
            /\ Len(a) > 0 => a[1] = t[1]
            /\ \A i \in 2..Len(a) :
                QEq(<<a[i][1] * atr_length, a[i][2]>>,
                    QAdd(t[i], <<a[i - 1][1] * (atr_length - 1), a[i - 1][2]>>))
            /\ atr_length = 1 => a = t

\* C3's case: a smoothed ATR that differs from the True Range
C3_Witness ==
    /\ HasCols({"tr", "atr"})
    /\ atr_length = DefaultAtrLength
    /\ Len(Work["atr"]) > MinPeriods
    /\ Work["atr"][Len(Work["atr"])] # Work["tr"][Len(Work["tr"])]
    /\ Work["atr"][Len(Work["atr"]) - 1] # Work["atr"][Len(Work["atr"])]

\* C4: when every bar has High >= Low, TR[1] = High[1] - Low[1], every later
\* TR[i] is the greatest of High[i] - Low[i], |High[i] - Close[i-1]| and
\* |Low[i] - Close[i-1]|, and no TR[i] is negative.
C4_TrueRange ==
    (HasCols({"tr"}) /\ ValidBars) =>
        LET t == Work["tr"]
            H == input["High"]
            L == input["Low"]
            C == input["Close"]
        IN  /\ Len(t) = NRows(input)
            /\ Len(t) > 0 => t[1] = QSub(H[1], L[1])
            /\ \A i \in 2..Len(t) :
                LET x == QSub(H[i], L[i])
                    y == QAbs(QSub(H[i], C[i - 1]))
                    z == QAbs(QSub(L[i], C[i - 1]))
                IN  /\ t[i] \in {x, y, z}
                    /\ QLe(x, t[i]) /\ QLe(y, t[i]) /\ QLe(z, t[i])
            /\ \A i \in 1..Len(t) : QLe(Q(0), t[i])

\* C4's case: valid bars among which a gap up makes |High - previous Close|
\* the True Range and a gap down makes |Low - previous Close| the True Range
C4_Witness ==
    /\ HasCols({"tr", "tr1", "tr2", "tr3"})
    /\ ValidBars
    /\ \E i, j, k \in 2..Len(Work["tr"]) :
        /\ QLt(Work["tr1"][i], Work["tr2"][i]) /\ QLt(Work["tr3"][i], Work["tr2"][i])
        /\ QLt(Work["tr1"][j], Work["tr3"][j]) /\ QLt(Work["tr2"][j], Work["tr3"][j])
        /\ QLt(Work["tr2"][k], Work["tr1"][k]) /\ QLt(Work["tr3"][k], Work["tr1"][k])

\* C5: a defined atr_percentile lies in (0, 100]: it is at least
\* 100 / (window length), equal to that for a value strictly below all others
\* of its window, and 100 whenever ATR[i] is a greatest value of its window.
C5_PercentileRange ==
    HasCols({"atr", "atr_percentile"}) =>
        \A i \in 1..Len(Work["atr"]) :
            LET p == Work["atr_percentile"][i]
                a == Work["atr"]
            IN  ~isna(p) =>
                    /\ QLt(Q(0), p)
                    /\ QLe(p, Q(100))
                    /\ QLe(<<100, WinLen(i)>>, p)
                    /\ (\A k \in WinRows(i) \ {i} : QLt(a[i], a[k]))
                            => QEq(p, <<100, WinLen(i)>>)
                    /\ (\A k \in WinRows(i) : QLe(a[k], a[i])) => p = Q(100)

\* C5's case: a window whose values all tie, and a later row whose value is
\* strictly the least of its window
C5_Witness ==
    /\ HasCols({"atr", "atr_percentile"})
    /\ \E i, j \in 1..Len(Work["atr"]) :
        /\ ~isna(Work["atr_percentile"][i])
        /\ \A k \in WinRows(i) : Work["atr"][k] = Work["atr"][i]
        /\ Work["atr_percentile"][i] = Q(100)
        /\ ~isna(Work["atr_percentile"][j])
        /\ \A k \in WinRows(j) \ {j} : QLt(Work["atr"][j], Work["atr"][k])
        /\ QEq(Work["atr_percentile"][j], <<100, WinLen(j)>>)

\* C6 as claimed: get_atr_score never returns a result for a DataFrame
\* without rows.
C6_EmptySeriesRejected ==
    ~(pc = "scored" /\ score_df # NoFrame /\ NRows(score_df[1]) = 0)

\* C6 as amended: for a DataFrame without rows, and for None,
\* get_atr_score returns (0, None, None).
C6_EmptyScoresZero ==
    (pc = "scored" /\ (score_df = NoFrame \/ NRows(score_df[1]) = 0)) =>
        score = <<0, None, None>>

\* C6's case: get_atr_score has returned for a DataFrame without rows
C6_Witness ==
    /\ pc = "scored"
    /\ score_df # NoFrame
    /\ NRows(score_df[1]) = 0
    /\ score = <<0, None, None>>

\* C7 as claimed: with an ATR length of 0 or less no computation begins: no
\* True Range is ever computed.
C7_NoComputationForBadLength ==
    atr_length <= 0 => \A r \in DOMAIN heap : "tr" \notin DOMAIN heap[r]

\* C7 as amended: with an ATR length of 0 or less the call gets as far as the
\* ATR step and raises there (ZeroDivisionError for 0, ValueError below 0);
\* it never returns, and no atr or atr_percentile column ever exists.
C7_BadLengthRaises ==
    atr_length <= 0 =>
        /\ pc \in {"call", "tr", "atr", "raised"}
        /\ ret.kind # "df"
        /\ \A r \in DOMAIN heap :
            DOMAIN heap[r] \cap {"atr", "atr_percentile"} = {}
        /\ pc = "raised" =>
            /\ ret = RaisedRet
            /\ exc = IF atr_length = 0 THEN "ZeroDivisionError"
                     ELSE "ValueError"

\* C7's case: a call with a negative ATR length has raised
C7_Witness ==
    /\ atr_length < 0
    /\ pc = "raised"
    /\ exc = "ValueError"
    /\ NRows(input) > MinPeriods

\* C8: with a lookback window below 20 the call raises (the ValueError of the
\* rolling window) and never returns; no atr_percentile column ever exists.
C8_ShortWindowRaises ==
    lookback_days < MinPeriods =>
        /\ pc \in {"call", "tr", "atr", "pct", "raised"}
        /\ ret.kind # "df"
        /\ \A r \in DOMAIN heap : "atr_percentile" \notin DOMAIN heap[r]
        /\ (pc = "raised" /\ atr_length > 0) =>
            /\ ret = RaisedRet
            /\ exc = "ValueError"
            /\ HasCols({"atr"})

\* C8's case: a call with a valid ATR length, a window of 19 and enough rows
\* to rank has raised at the rolling window
C8_Witness ==
    /\ lookback_days < MinPeriods
    /\ atr_length > 0
    /\ pc = "raised"
    /\ HasCols({"atr"})
    /\ NRows(input) >= MinPeriods

\* What two ended calls were given
SameCall(a, b) ==
    /\ a.df = b.df
    /\ a.atr_length = b.atr_length
    /\ a.lookback_days = b.lookback_days

\* C9: calculate_atr_percentile leaves the caller's DataFrame as it was,
\* returns an object of its own, and calls with equal arguments end alike,
\* whatever was called in between.
C9_Pure ==
    /\ heap[arg] = input
    /\ Len(log) > 0 => heap[1] = log[1].df
    /\ ret.kind = "df" => ret.ref # arg
    /\ \A i, j \in 1..Len(log) :
        SameCall(log[i], log[j]) => log[i].out = log[j].out

\* C9's case: a call that returned, a call on other arguments that ended
\* otherwise, and the first call again
C9_Witness ==
    /\ pc = "finished"
    /\ SameCall(log[1], log[3])
    /\ ~SameCall(log[1], log[2])
    /\ log[1].out.frames # <<>>
    /\ NRows(log[1].out.frames[1]) > MinPeriods
    /\ log[2].out # log[1].out

Unable == <<"Unable to fetch data for this ticker">>

\* C10: analyze_stock never raises; it returns (result, None) or
\* (None, message); without bars the message is the "Unable to fetch" one and
\* neither the computation nor the scoring has run; after an exception in
\* the download, the computation or the info lookup the message is
\* "Error analyzing <ticker>: ...".
C10_AnalyzeNeverRaises ==
    /\ pc # "raised"
    /\ pc = "as_done" =>
        /\ (out.res = <<>>) # (out.err = <<>>)
        /\ (exc = "" /\ NRows(input) = 0) =>
            /\ out = [res |-> <<>>, err |-> <<Unable>>]
            /\ DOMAIN heap = {1}
            /\ heap[1] = input
            /\ ret = NoRet
            /\ score = <<>>
        /\ exc # "" =>
            out = [res |-> <<>>,
                   err |-> << <<"Error analyzing ", ticker, ": ", exc>> >>]
        /\ (exc = "" /\ NRows(input) > 0) =>
            /\ out.err = <<>>
            /\ out.res[1].atr_score = score[1]
            /\ out.res[1].data = ret.ref
    /\ pc # "as_done" => out = NoOut

\* C10's case: the computation raised inside analyze_stock and the error
\* pair was returned
C10_Witness ==
    /\ pc = "as_done"
    /\ exc = "ZeroDivisionError"
    /\ out.res = <<>>
    /\ out.err # <<>>

====
